---------------------------- MODULE Spec2Model ----------------------------
(***************************************************************************)
(* messageResource.js (v1.1): loading of key=value resource files into an  *)
(* in-memory store, and locale-aware lookups.                              *)
(*                                                                         *)
(* A JavaScript string is a sequence of one-character strings.  A          *)
(* JavaScript value that may be of several types (an argument, the value a *)
(* fetch hands to its callback) is a record tagged with its type in t.     *)
(* The object `properties` is a function from locale to a function from    *)
(* module to a function from key to value; `undefined` and the empty       *)
(* object, which the code never tells apart, are both the empty function.  *)
(* Only the default fileNameResolver and the default ajaxFunction are      *)
(* modelled; the network is the nondeterministic choice of a response and  *)
(* of the order of completion.                                             *)
(***************************************************************************)
EXTENDS Integers, Sequences, FiniteSets, TLC

VARIABLES properties, filePath, fileExtension, defaultLocale, currentLocale,
          validConfiguration, calls, last

vars == <<properties, filePath, fileExtension, defaultLocale, currentLocale,
          validConfiguration, calls, last>>

---------------------------------------------------------------------------
(* Bounds of the model. *)

\* Number of load calls made in one behaviour.
MaxCalls == 2
\* Number of load calls made in one behaviour with lookups.
MaxLookupCalls == 1
\* Length of the file texts enumerated for the parser.
MaxTextLen == 6

---------------------------------------------------------------------------
(* JavaScript values. *)

Undefined == [t |-> "undefined"]
JsStr(s) == [t |-> "string", s |-> s]
JsNum(n) == [t |-> "number", n |-> n]
JsArr(items) == [t |-> "array", items |-> items]

IsString(v) == v.t = "string"
IsArray(v) == v.t = "array"

\* ToBoolean(v): undefined, '' and 0 are falsy; an array is an object.
Truthy(v) ==
  CASE v.t = "undefined" -> FALSE
    [] v.t = "string" -> v.s /= <<>>
    [] v.t = "number" -> v.n /= 0
    [] OTHER -> TRUE

Digit(d) == CASE d = 0 -> "0" [] d = 1 -> "1" [] d = 2 -> "2" [] d = 3 -> "3"
              [] d = 4 -> "4" [] d = 5 -> "5" [] d = 6 -> "6" [] d = 7 -> "7"
              [] d = 8 -> "8" [] OTHER -> "9"

RECURSIVE NumToStr(_)
NumToStr(n) == IF n < 10 THEN <<Digit(n)>>
               ELSE NumToStr(n \div 10) \o <<Digit(n % 10)>>

\* '' + v, for the values a fetch hands to its callback.
ToStr(v) ==
  CASE v.t = "string" -> v.s
    [] v.t = "number" -> NumToStr(v.n)
    [] OTHER -> <<"u","n","d","e","f","i","n","e","d">>

---------------------------------------------------------------------------
(* String.prototype functions the code uses. *)

\* WhiteSpace and LineTerminator characters, as String.prototype.trim sees them.
WhiteSpace == {" ", "\t", "\n", "\r", "\f"}
\* The characters the regular expression dot does not match.
LineTerminators == {"\n", "\r"}

RECURSIVE TrimLeft(_)
TrimLeft(s) == IF s /= <<>> /\ Head(s) \in WhiteSpace THEN TrimLeft(Tail(s)) ELSE s

RECURSIVE TrimRight(_)
TrimRight(s) == IF s /= <<>> /\ s[Len(s)] \in WhiteSpace
                THEN TrimRight(SubSeq(s, 1, Len(s) - 1)) ELSE s

Trim(s) == TrimRight(TrimLeft(s))

\* s.indexOf(c), 1-based; 0 when c does not occur at or after position from.
IndexFrom(s, c, from) ==
  IF \E i \in from..Len(s) : s[i] = c
  THEN CHOOSE i \in from..Len(s) : s[i] = c /\ \A j \in from..(i - 1) : s[j] /= c
  ELSE 0

IndexOf(s, c) == IndexFrom(s, c, 1)

\* s.split(c): the pieces between the occurrences of c (one piece when none).
RECURSIVE Split(_, _)
Split(s, c) ==
  LET i == IndexOf(s, c)
  IN IF i = 0 THEN <<s>>
     ELSE <<SubSeq(s, 1, i - 1)>> \o Split(SubSeq(s, i + 1, Len(s)), c)

\* s.replace(c, d) with a string pattern: the first occurrence only.
ReplaceFirst(s, c, d) ==
  LET i == IndexOf(s, c)
  IN IF i = 0 THEN s
     ELSE SubSeq(s, 1, i - 1) \o <<d>> \o SubSeq(s, i + 1, Len(s))

---------------------------------------------------------------------------
(* The module's private functions. *)

DEFAULT_MODULE_NAME == <<"_","d","e","f","a","u","l","t">>
DEFAULT_EXTENSION == <<".","p","r","o","p","e","r","t","i","e","s">>

\* defaultFileNameResolver(module, locale): module is a string, locale any value.
defaultFileNameResolver(module, locale) ==
  IF Truthy(locale) /\ IsString(locale)
  THEN module \o <<"_">> \o locale.s
  ELSE module

\* One attempt of /([^=]*)=(.*)$/ starting at position s: the first group runs
\* to the first '=' at or after s, the second from there to the end of the
\* string, which it reaches only if no line terminator is in the way.
MatchAt(line, s) ==
  LET j == IndexFrom(line, "=", s)
  IN IF j = 0 \/ \E i \in (j + 1)..Len(line) : line[i] \in LineTerminators
     THEN [matched |-> FALSE, g1 |-> <<>>, g2 |-> <<>>]
     ELSE [matched |-> TRUE, g1 |-> SubSeq(line, s, j - 1),
           g2 |-> SubSeq(line, j + 1, Len(line))]

\* line.match(/([^=]*)=(.*)$/): the match at the leftmost position that has one.
Match(line) ==
  IF \E s \in 1..(Len(line) + 1) : MatchAt(line, s).matched
  THEN MatchAt(line, CHOOSE s \in 1..(Len(line) + 1) :
                       /\ MatchAt(line, s).matched
                       /\ \A r \in 1..(s - 1) : ~MatchAt(line, r).matched)
  ELSE [matched |-> FALSE, g1 |-> <<>>, g2 |-> <<>>]

SaveLine_untrimmed(curModuleMap, rawLine) ==
  LET line == Trim(rawLine)
      keyValPair == Match(line)
      value == IF keyValPair.g2 /= <<>> THEN keyValPair.g2 ELSE <<>>
      key == keyValPair.g1
  IN IF line = <<>> \/ line[1] = "#" THEN curModuleMap
     ELSE IF keyValPair.matched /\ keyValPair.g1 /= <<>>
     THEN [k \in (DOMAIN curModuleMap) \cup {key} |->
             IF k = key THEN value ELSE curModuleMap[k]]
     ELSE curModuleMap

SaveLine_keepExisting(curModuleMap, rawLine) ==
  LET line == Trim(rawLine)
      keyValPair == Match(line)
      value == IF keyValPair.g2 /= <<>> THEN Trim(keyValPair.g2) ELSE <<>>
      key == Trim(keyValPair.g1)
  IN IF line = <<>> \/ line[1] = "#" THEN curModuleMap
     ELSE IF keyValPair.matched /\ keyValPair.g1 /= <<>>
     THEN [k \in (DOMAIN curModuleMap) \cup {key} |->
             IF k \in DOMAIN curModuleMap THEN curModuleMap[k] ELSE value]
     ELSE curModuleMap

\* The body of saveFile's forEach: one line into the module's map.
SaveLine(curModuleMap, rawLine) ==
  LET line == Trim(rawLine)
      keyValPair == Match(line)
      value == IF keyValPair.g2 /= <<>> THEN Trim(keyValPair.g2) ELSE <<>>
      key == Trim(keyValPair.g1)
  IN IF line = <<>> \/ line[1] = "#" THEN curModuleMap
     ELSE IF keyValPair.matched /\ keyValPair.g1 /= <<>>
     THEN [k \in (DOMAIN curModuleMap) \cup {key} |->
             IF k = key THEN value ELSE curModuleMap[k]]
     ELSE curModuleMap

RECURSIVE SaveLines(_, _)
SaveLines(curModuleMap, linesArray) ==
  IF linesArray = <<>> THEN curModuleMap
  ELSE SaveLines(SaveLine(curModuleMap, Head(linesArray)), Tail(linesArray))

\* properties[locale][module], the empty object when there is none.
ModuleMap(props, locale, module) ==
  IF locale \in DOMAIN props /\ module \in DOMAIN props[locale]
  THEN props[locale][module] ELSE <<>>

WithLocale_withDefault(props, locale) ==
  [l \in (DOMAIN props) \cup {locale} |->
     IF l \in DOMAIN props THEN props[l] ELSE (DEFAULT_MODULE_NAME :> <<>>)]

\* props with props[locale] = props[locale] || {}.
WithLocale(props, locale) ==
  [l \in (DOMAIN props) \cup {locale} |->
     IF l \in DOMAIN props THEN props[l] ELSE <<>>]

\* props with props[locale][module] set to map.
WithModule(props, locale, module, map) ==
  LET p == WithLocale(props, locale)
  IN [l \in DOMAIN p |->
        IF l = locale
        THEN [m \in (DOMAIN p[l]) \cup {module} |->
                IF m = module THEN map ELSE p[l][m]]
        ELSE p[l]]

saveFile_replace(text, module, locale, props) ==
  LET str == ToStr(text)
  IN IF str = <<>> THEN props
     ELSE WithModule(props, locale, module, SaveLines(<<>>, Split(str, "\n")))

saveFile_emptyEntry(text, module, locale, props) ==
  LET str == ToStr(text)
  IN WithModule(props, locale, module,
                IF str = <<>> THEN ModuleMap(props, locale, module)
                ELSE SaveLines(ModuleMap(props, locale, module), Split(str, "\n")))

\* saveFile(text, module, locale) on the store props; text is the value the
\* fetch handed over, a string or a number.
saveFile(text, module, locale, props) ==
  LET str == ToStr(text)
  IN IF str = <<>> THEN props
     ELSE WithModule(props, locale, module,
                     SaveLines(ModuleMap(props, locale, module), Split(str, "\n")))

getValidLocale_asGiven(locale) ==
  IF ~Truthy(locale) \/ ~IsString(locale) THEN currentLocale ELSE locale.s

\* getValidLocale(locale); reads currentLocale.
getValidLocale(locale) ==
  LET l == IF ~Truthy(locale) \/ ~IsString(locale) THEN currentLocale ELSE locale.s
  IN IF IndexOf(l, "-") /= 0 THEN ReplaceFirst(l, "-", "_") ELSE l

isModuleLoaded_never(module, locale) == FALSE

\* isModuleLoaded(module, locale): module any value, locale a string.
isModuleLoaded(module, locale) ==
  /\ Truthy(module)
  /\ locale /= <<>>
  /\ locale \in DOMAIN properties
  /\ ToStr(module) \in DOMAIN properties[locale]

HexDigits == {"0","1","2","3","4","5","6","7","8","9",
              "a","b","c","d","e","f","A","B","C","D","E","F"}

HexVal(c) ==
  CASE c = "0" -> 0 [] c = "1" -> 1 [] c = "2" -> 2 [] c = "3" -> 3
    [] c = "4" -> 4 [] c = "5" -> 5 [] c = "6" -> 6 [] c = "7" -> 7
    [] c = "8" -> 8 [] c = "9" -> 9
    [] c \in {"a", "A"} -> 10 [] c \in {"b", "B"} -> 11
    [] c \in {"c", "C"} -> 12 [] c \in {"d", "D"} -> 13
    [] c \in {"e", "E"} -> 14 [] OTHER -> 15

\* parseInt(h, 16) of four hexadecimal digits.
ParseHex4(h) ==
  ((HexVal(h[1]) * 16 + HexVal(h[2])) * 16 + HexVal(h[3])) * 16 + HexVal(h[4])

\* String.fromCharCode(n): the characters the model writes literally are
\* themselves; any other code unit is the token U+n.
FromCharCode(n) ==
  CASE n = 10 -> "\n" [] n = 13 -> "\r" [] n = 32 -> " " [] n = 35 -> "#"
    [] n = 61 -> "=" [] n = 65 -> "A" [] n = 66 -> "B" [] n = 92 -> "\\"
    [] n = 97 -> "a" [] n = 100 -> "d" [] n = 106 -> "j" [] n = 107 -> "k"
    [] n = 117 -> "u" [] n = 118 -> "v" [] n = 119 -> "w"
    [] n \in 48..57 -> Digit(n - 48)
    [] OTHER -> "U+" \o ToString(n)

\* convertUnicodeString(str): every \uXXXX, scanned left to right without
\* overlap, becomes the character of that code.
RECURSIVE convertUnicodeString(_)
convertUnicodeString(str) ==
  IF str = <<>> THEN <<>>
  ELSE IF /\ Len(str) >= 6
          /\ str[1] = "\\" /\ str[2] = "u"
          /\ \A i \in 3..6 : str[i] \in HexDigits
       THEN <<FromCharCode(ParseHex4(SubSeq(str, 3, 6)))>>
              \o convertUnicodeString(SubSeq(str, 7, Len(str)))
       ELSE <<Head(str)>> \o convertUnicodeString(Tail(str))

---------------------------------------------------------------------------
(* The arguments and responses the model draws from. *)

en_US == <<"e","n","_","U","S">>
en_dash_US == <<"e","n","-","U","S">>
fr == <<"f","r">>
ModA == <<"A">>
ModB == <<"B">>
KeyK == <<"k">>
KeyJ == <<"j">>
Escaped == <<"\\","u","0","0","4","1">>

\* What the server may answer: a status and, for 200, the file's text.
Responses ==
  {[status |-> 404, responseText |-> <<>>],
   [status |-> 200, responseText |-> <<>>],
   [status |-> 200, responseText |-> <<"k","=","v">>],
   [status |-> 200, responseText |-> <<"k","=","w","\n","j","=">> \o Escaped]}

\* Lookups (SpecLookup) also meet a value with two escape sequences.
LookupResponses ==
  Responses \cup
    {[status |-> 200,
      responseText |-> <<"j","=">> \o Escaped \o <<"b","\\","u","0","0","4","2">>]}

\* Load coordination (Spec): lists of modules, two calls in flight.
ModuleArgs == {Undefined, JsStr(ModA),
               JsArr(<<JsStr(ModA), JsStr(ModB)>>),
               JsArr(<<JsStr(ModA), Undefined, JsStr(ModA)>>)}
LocaleArgs == {Undefined, JsStr(en_dash_US), JsStr(fr)}
SetLocaleArgs == {Undefined, JsStr(fr)}
Configs == {[filePath |-> JsStr(<<"p">>), fileExtension |-> JsStr(<<"x">>),
             defaultLocale |-> Undefined]}

\* Racing loads (SpecFair): two calls that may ask for the same module.
RaceModuleArgs == {JsStr(ModA), JsArr(<<JsStr(ModA), JsStr(ModB)>>)}
RaceLocaleArgs == {Undefined}

\* The default locale (SpecDefault): the default of the code, and a locale
\* identifier with two hyphens given to init.
a_dash_b_dash_c == <<"a","-","b","-","c">>
DefaultConfigs == {[filePath |-> Undefined, fileExtension |-> Undefined,
                    defaultLocale |-> Undefined],
                   [filePath |-> Undefined, fileExtension |-> Undefined,
                    defaultLocale |-> JsStr(a_dash_b_dash_c)]}
DefaultSetLocaleArgs == {JsStr(fr), JsStr(en_US)}

\* Lookups (SpecLookup): one load, every combination of get's arguments.
LookupModuleArgs == {Undefined, JsStr(ModA), JsArr(<<JsStr(ModA), JsStr(ModA)>>)}
LookupLocaleArgs == {Undefined, JsStr(en_dash_US), JsStr(en_US)}
LookupSetLocaleArgs == {JsStr(<<>>), JsStr(en_dash_US), JsStr(fr)}
LookupConfigs == {[filePath |-> Undefined, fileExtension |-> Undefined,
                   defaultLocale |-> Undefined],
                  [filePath |-> JsStr(<<"p","/">>), fileExtension |-> JsStr(<<".","x">>),
                   defaultLocale |-> JsStr(fr)]}
GetKeys == {KeyJ, Escaped}
GetModules == {Undefined, JsStr(ModA)}
GetDefaults == {Undefined, JsStr(<<>>), JsStr(Escaped)}

\* The parser (SpecParse): one load, every file text up to MaxTextLen characters.
ParseAlphabet == {"a", "=", " ", "#", "\r", "\n"}
ParseTexts == UNION {[1..n -> ParseAlphabet] : n \in 0..MaxTextLen}
ParseResponses == {[status |-> 200, responseText |-> text] : text \in ParseTexts}

---------------------------------------------------------------------------
(* The state machine. *)

Init ==
  /\ properties = <<>>
  /\ filePath = Undefined
  /\ fileExtension = Undefined
  /\ defaultLocale = en_US
  /\ currentLocale = en_US
  /\ validConfiguration = FALSE
  /\ calls = <<>>
  /\ last = [op |-> "none"]

\* config.x || d
OrElse(v, d) == IF Truthy(v) THEN v ELSE d

\* init(config)
InitConfig(config) ==
  LET fp == OrElse(config.filePath, JsStr(<<>>)).s
      fe == OrElse(config.fileExtension, JsStr(DEFAULT_EXTENSION)).s
      dl == getValidLocale(config.defaultLocale)
  IN /\ filePath' = JsStr(IF fp /= <<>> /\ fp[Len(fp)] /= "/" THEN fp \o <<"/">> ELSE fp)
     /\ fileExtension' = JsStr(IF fe = <<>> \/ fe[1] /= "." THEN <<".">> \o fe ELSE fe)
     /\ defaultLocale' = dl
     /\ currentLocale' = dl
     /\ validConfiguration' = TRUE
     /\ last' = [op |-> "init"]
     /\ UNCHANGED <<properties, calls>>

\* setCurrentLocale(locale)
SetCurrentLocale(locale) ==
  /\ currentLocale' = IF Truthy(locale) /\ IsString(locale) THEN locale.s ELSE currentLocale
  /\ last' = [op |-> "setCurrentLocale"]
  /\ UNCHANGED <<properties, filePath, fileExtension, defaultLocale,
                 validConfiguration, calls>>

NotConfigured_never == FALSE

\* The guard of load's first statement.
NotConfigured == ~validConfiguration

\* load's fileLocale.
FileLocale(locale, validLocale) ==
  IF validLocale = defaultLocale THEN locale ELSE JsStr(validLocale)

RECURSIVE NotLoadedOf_all(_, _)
NotLoadedOf_all(items, validLocale) ==
  IF items = <<>> THEN <<>>
  ELSE (IF Truthy(Head(items)) THEN <<ToStr(Head(items))>> ELSE <<>>)
       \o NotLoadedOf_all(Tail(items), validLocale)

RECURSIVE NotLoadedOf(_, _)
\* The array branch of load: the truthy items not loaded for validLocale, in order.
NotLoadedOf(items, validLocale) ==
  IF items = <<>> THEN <<>>
  ELSE (IF Truthy(Head(items)) /\ ~isModuleLoaded(Head(items), validLocale)
        THEN <<ToStr(Head(items))>> ELSE <<>>)
       \o NotLoadedOf(Tail(items), validLocale)

\* load's modulesToLoad.
ModulesToLoad(module, validLocale) ==
  LET validModule == OrElse(module, JsStr(DEFAULT_MODULE_NAME))
  IN IF IsArray(validModule) THEN NotLoadedOf(validModule.items, validLocale)
     ELSE IF ~isModuleLoaded(validModule, validLocale)
          THEN <<ToStr(validModule)>> ELSE <<>>

\* The url load asks the fetch capability for.
FileUrl(modName, fileLocale) ==
  ToStr(filePath) \o defaultFileNameResolver(modName, fileLocale) \o ToStr(fileExtension)

\* load(module, callback, locale); hasCallback: whether callback is a function.
\* A call is recorded with the fetches it issued (urls), the ones completed
\* (done), its counter and the number of times its callback has been invoked.
Load(module, hasCallback, locale) ==
  /\ LET validLocale == getValidLocale(locale)
         fileLocale == FileLocale(locale, validLocale)
         modulesToLoad == ModulesToLoad(module, validLocale)
         call == [module |-> module, locale |-> locale, hasCallback |-> hasCallback,
                  aborted |-> NotConfigured,
                  validLocale |-> validLocale, fileLocale |-> fileLocale,
                  modulesToLoad |-> IF NotConfigured THEN <<>> ELSE modulesToLoad,
                  urls |-> IF NotConfigured THEN <<>>
                           ELSE [i \in 1..Len(modulesToLoad) |->
                                   FileUrl(modulesToLoad[i], fileLocale)],
                  filesLoadedCount |-> 0,
                  done |-> {},
                  callbacks |-> IF ~NotConfigured /\ modulesToLoad = <<>> /\ hasCallback
                                THEN 1 ELSE 0]
     IN /\ calls' = Append(calls, call)
        /\ properties' = IF NotConfigured \/ modulesToLoad = <<>> THEN properties
                         ELSE WithLocale(properties, validLocale)
        /\ last' = [op |-> "load", call |-> Len(calls) + 1]
  /\ UNCHANGED <<filePath, fileExtension, defaultLocale, currentLocale,
                 validConfiguration>>

\* The fetches of call c that have not completed.
Pending(c) == {i \in DOMAIN calls[c].modulesToLoad : i \notin calls[c].done}

\* ajaxGet's onreadystatechange: the value handed to the callback.
AjaxResult(response) ==
  IF response.status = 200 THEN JsStr(response.responseText) ELSE JsNum(response.status)

AllFilesLoaded_first(filesLoadedCount, modulesToLoad) ==
  filesLoadedCount = 1

\* The test that decides whether the callback runs: every file is in.
AllFilesLoaded(filesLoadedCount, modulesToLoad) ==
  filesLoadedCount = Len(modulesToLoad)

FetchComplete_sharedCounter(c, i, response) ==
  /\ c \in 1..Len(calls)
  /\ i \in 1..Len(calls[c].modulesToLoad)
  /\ i \notin calls[c].done
  /\ LET call == calls[c]
         count == Cardinality({<<d, j>> \in (DOMAIN calls) \X (1..3) : j \in calls[d].done}) + 1
     IN /\ properties' = saveFile(AjaxResult(response), call.modulesToLoad[i],
                                  call.validLocale, properties)
        /\ calls' = [calls EXCEPT ![c] =
                       [call EXCEPT !.filesLoadedCount = count,
                                    !.done = @ \cup {i},
                                    !.callbacks = IF AllFilesLoaded(count, call.modulesToLoad)
                                                     /\ call.hasCallback
                                                  THEN @ + 1 ELSE @]]
        /\ last' = [op |-> "complete", call |-> c, index |-> i, response |-> response]
  /\ UNCHANGED <<filePath, fileExtension, defaultLocale, currentLocale,
                 validConfiguration>>

FetchComplete_resolveLate(c, i, response) ==
  /\ c \in 1..Len(calls)
  /\ i \in 1..Len(calls[c].modulesToLoad)
  /\ i \notin calls[c].done
  /\ LET call == calls[c]
         count == call.filesLoadedCount + 1
     IN /\ properties' = saveFile(AjaxResult(response), call.modulesToLoad[i],
                                  getValidLocale(call.locale), properties)
        /\ calls' = [calls EXCEPT ![c] =
                       [call EXCEPT !.filesLoadedCount = count,
                                    !.done = @ \cup {i},
                                    !.callbacks = IF AllFilesLoaded(count, call.modulesToLoad)
                                                     /\ call.hasCallback
                                                  THEN @ + 1 ELSE @]]
        /\ last' = [op |-> "complete", call |-> c, index |-> i, response |-> response]
  /\ UNCHANGED <<filePath, fileExtension, defaultLocale, currentLocale,
                 validConfiguration>>

\* The callback load gave to the fetch of its i-th module, run on completion.
FetchComplete(c, i, response) ==
  /\ c \in 1..Len(calls)
  /\ i \in 1..Len(calls[c].modulesToLoad)
  /\ i \notin calls[c].done
  /\ LET call == calls[c]
         count == call.filesLoadedCount + 1
     IN /\ properties' = saveFile(AjaxResult(response), call.modulesToLoad[i],
                                  call.validLocale, properties)
        /\ calls' = [calls EXCEPT ![c] =
                       [call EXCEPT !.filesLoadedCount = count,
                                    !.done = @ \cup {i},
                                    !.callbacks = IF AllFilesLoaded(count, call.modulesToLoad)
                                                     /\ call.hasCallback
                                                  THEN @ + 1 ELSE @]]
        /\ last' = [op |-> "complete", call |-> c, index |-> i, response |-> response]
  /\ UNCHANGED <<filePath, fileExtension, defaultLocale, currentLocale,
                 validConfiguration>>

GetValue_keyOnly(key, module, locale, defaultValue) ==
  LET validModule == OrElse(module, JsStr(DEFAULT_MODULE_NAME))
      validLocale == getValidLocale(locale)
  IN convertUnicodeString(
       IF isModuleLoaded(validModule, validLocale)
          /\ key.s \in DOMAIN properties[validLocale][ToStr(validModule)]
       THEN properties[validLocale][ToStr(validModule)][key.s]
       ELSE ToStr(key))

GetValue_guarded(key, module, locale, defaultValue) ==
  IF ~validConfiguration THEN <<>>
  ELSE GetValue_keyOnly(key, module, locale, Undefined)

GetValue_raw(key, module, locale, defaultValue) ==
  LET validModule == OrElse(module, JsStr(DEFAULT_MODULE_NAME))
      validLocale == getValidLocale(locale)
      value == OrElse(defaultValue, key)
  IN IF isModuleLoaded(validModule, validLocale)
        /\ key.s \in DOMAIN properties[validLocale][ToStr(validModule)]
     THEN properties[validLocale][ToStr(validModule)][key.s]
     ELSE ToStr(value)

\* get(key, module, locale, defaultValue): the value returned.
GetValue(key, module, locale, defaultValue) ==
  LET validModule == OrElse(module, JsStr(DEFAULT_MODULE_NAME))
      validLocale == getValidLocale(locale)
      value == OrElse(defaultValue, key)
  IN convertUnicodeString(
       IF isModuleLoaded(validModule, validLocale)
          /\ key.s \in DOMAIN properties[validLocale][ToStr(validModule)]
       THEN properties[validLocale][ToStr(validModule)][key.s]
       ELSE ToStr(value))

Get_creatingLocale(key, module, locale, defaultValue) ==
  /\ last' = [op |-> "get", key |-> key, module |-> module, locale |-> locale,
              defaultValue |-> defaultValue,
              result |-> GetValue(key, module, locale, defaultValue)]
  /\ properties' = WithLocale(properties, getValidLocale(locale))
  /\ UNCHANGED <<filePath, fileExtension, defaultLocale, currentLocale,
                 validConfiguration, calls>>

\* get(key, module, locale, defaultValue)
Get(key, module, locale, defaultValue) ==
  /\ last' = [op |-> "get", key |-> key, module |-> module, locale |-> locale,
              defaultValue |-> defaultValue,
              result |-> GetValue(key, module, locale, defaultValue)]
  /\ UNCHANGED <<properties, filePath, fileExtension, defaultLocale, currentLocale,
                 validConfiguration, calls>>

Next ==
  \/ \E config \in Configs : InitConfig(config)
  \/ \E locale \in SetLocaleArgs : SetCurrentLocale(locale)
  \/ \E module \in ModuleArgs, locale \in LocaleArgs :
       Len(calls) < MaxCalls /\ Load(module, TRUE, locale)
  \/ \E c \in DOMAIN calls :
       \E i \in Pending(c), response \in Responses :
         FetchComplete(c, i, response)

Spec == Init /\ [][Next]_vars

LookupNext ==
  \/ \E config \in LookupConfigs : InitConfig(config)
  \/ \E locale \in LookupSetLocaleArgs : SetCurrentLocale(locale)
  \/ \E module \in LookupModuleArgs, locale \in LookupLocaleArgs :
       Len(calls) < MaxLookupCalls /\ Load(module, TRUE, locale)
  \/ \E c \in DOMAIN calls :
       \E i \in Pending(c), response \in LookupResponses :
         FetchComplete(c, i, response)
  \/ \E key \in GetKeys, module \in GetModules, locale \in LookupLocaleArgs,
        defaultValue \in GetDefaults :
       Get(JsStr(key), module, locale, defaultValue)

SpecLookup == Init /\ [][LookupNext]_vars

ParseNext ==
  \/ \E config \in Configs : ~validConfiguration /\ InitConfig(config)
  \/ \E hasCallback \in BOOLEAN :
       calls = <<>> /\ Load(JsStr(ModA), hasCallback, Undefined)
  \/ \E c \in DOMAIN calls :
       \E i \in Pending(c), response \in ParseResponses :
         FetchComplete(c, i, response)

SpecParse == Init /\ [][ParseNext]_vars

FairNext ==
  \/ \E config \in Configs : InitConfig(config)
  \/ \E locale \in SetLocaleArgs : SetCurrentLocale(locale)
  \/ \E module \in RaceModuleArgs, locale \in RaceLocaleArgs :
       Len(calls) < MaxCalls /\ Load(module, TRUE, locale)
  \/ \E c \in DOMAIN calls :
       \E i \in Pending(c), response \in Responses :
         FetchComplete(c, i, response)

\* Every fetch issued completes: XMLHttpRequest reaches readyState 4, with the
\* file or with a failure status.
FetchesComplete ==
  \A c \in 1..MaxCalls : \A i \in 1..2 :
    WF_vars(\E response \in Responses : FetchComplete(c, i, response))

SpecFair == Init /\ [][FairNext]_vars /\ FetchesComplete

\* Loads and lookups with no locale or with the configured default locale.
DefaultNext ==
  \/ \E config \in DefaultConfigs : InitConfig(config)
  \/ \E locale \in DefaultSetLocaleArgs : SetCurrentLocale(locale)
  \/ \E locale \in {Undefined, JsStr(defaultLocale)} :
       Len(calls) < MaxCalls /\ Load(JsStr(ModA), TRUE, locale)
  \/ \E c \in DOMAIN calls :
       \E i \in Pending(c), response \in Responses :
         FetchComplete(c, i, response)
  \/ \E key \in {KeyK, KeyJ}, locale \in {Undefined, JsStr(defaultLocale)} :
       Get(JsStr(key), JsStr(ModA), locale, Undefined)

SpecDefault == Init /\ [][DefaultNext]_vars

---------------------------------------------------------------------------
(* Properties. *)

\* The step is a call of load; NewCall is the call it made.
LoadStep == Len(calls') = Len(calls) + 1
NewCall == calls'[Len(calls')]

\* The step is the completion of fetch i of call c.
CompleteStep(c, i) ==
  /\ c \in DOMAIN calls /\ Len(calls') = Len(calls)
  /\ i \notin calls[c].done /\ i \in calls'[c].done

\* (locale, module) has an entry in the store props.
HasEntry(props, locale, module) ==
  locale \in DOMAIN props /\ module \in DOMAIN props[locale]

\* C1: a load call that issued at least one fetch has invoked its callback
\* exactly once when all its fetches have completed, and not at all while one
\* of them is outstanding, in whatever order they complete.
C1_CallbackOnceAfterLastFetch ==
  \A c \in DOMAIN calls :
    calls[c].modulesToLoad /= <<>> /\ calls[c].hasCallback =>
      calls[c].callbacks = IF Pending(c) = {} THEN 1 ELSE 0

\* C1 witness: a call for two modules whose second fetch completed before its
\* first, the callback invoked once by the completion of the first.
C1_Witness ==
  /\ last.op = "complete" /\ last.index = 1
  /\ calls[last.call].modulesToLoad = <<ModA, ModB>>
  /\ calls[last.call].done = {1, 2}
  /\ calls[last.call].callbacks = 1

\* The names a load call asks for: the module, the default module when none is
\* given, or the truthy items of the list.
Requested(module) ==
  IF IsArray(module)
  THEN {ToStr(module.items[i]) : i \in {j \in DOMAIN module.items : Truthy(module.items[j])}}
  ELSE IF Truthy(module) THEN {ToStr(module)} ELSE {DEFAULT_MODULE_NAME}

\* C2: a load for modules that all have an entry in the store for the
\* normalized locale invokes the callback before it returns, issues no fetch
\* and leaves the store as it was.
C2_LoadedModulesCallbackAtOnce ==
  [][(/\ LoadStep
      /\ \A m \in Requested(NewCall.module) :
           HasEntry(properties, NewCall.validLocale, m))
     => /\ NewCall.callbacks = 1
        /\ NewCall.urls = <<>>
        /\ properties' = properties]_vars

\* C2 witness: a second load of a list of two modules, both loaded by the
\* first, has returned with its callback invoked and nothing to fetch.
C2_Witness ==
  /\ last.op = "load" /\ last.call = 2
  /\ calls[2].module = JsArr(<<JsStr(ModA), JsStr(ModB)>>)
  /\ HasEntry(properties, calls[2].validLocale, ModA)
  /\ HasEntry(properties, calls[2].validLocale, ModB)
  /\ calls[2].urls = <<>>
  /\ calls[2].callbacks = 1

\* C3: a load called before init issues no fetch, leaves the store unchanged
\* and does not invoke the callback, at the call or at any later step.
C3_LoadBeforeInitAborts ==
  [][/\ (LoadStep /\ ~validConfiguration) =>
          /\ NewCall.aborted
          /\ NewCall.urls = <<>>
          /\ NewCall.callbacks = 0
          /\ properties' = properties
     /\ \A c \in DOMAIN calls :
          calls[c].aborted => calls'[c] = calls[c] /\ calls[c].callbacks = 0]_vars

\* C3 witness: a load was called before init; since then init was called and
\* a fetch of a later load completed, and the early call's callback has not run.
C3_Witness ==
  /\ Len(calls) = 2
  /\ calls[1].aborted /\ calls[1].callbacks = 0
  /\ validConfiguration
  /\ last.op = "complete" /\ last.call = 2

\* C4: when a fetch completes with a status other than 200 for a module that
\* has no entry for the call's locale, the module has no entry afterwards.
C4_FailedFetchLeavesModuleAbsent ==
  [][\A c \in DOMAIN calls : \A i \in DOMAIN calls[c].modulesToLoad :
       (/\ CompleteStep(c, i)
        /\ last'.response.status /= 200
        /\ ~HasEntry(properties, calls[c].validLocale, calls[c].modulesToLoad[i]))
       => ~HasEntry(properties', calls[c].validLocale, calls[c].modulesToLoad[i])]_vars

\* C6: the file name load asks for is the module name alone when the
\* normalized locale is the default locale and no locale was passed, and the
\* module name, an underscore and the normalized locale in every other case.
C6_FileNameFromNormalizedLocale ==
  [][(LoadStep /\ validConfiguration) =>
       \A i \in DOMAIN NewCall.urls :
         NewCall.urls[i] =
           ToStr(filePath)
           \o (IF NewCall.validLocale = defaultLocale /\ ~Truthy(NewCall.locale)
               THEN NewCall.modulesToLoad[i]
               ELSE NewCall.modulesToLoad[i] \o <<"_">> \o NewCall.validLocale)
           \o ToStr(fileExtension)]_vars

ModuleName(module) == IF Truthy(module) THEN ToStr(module) ELSE DEFAULT_MODULE_NAME

\* The last operation was a get whose key is not stored for the locale and
\* module its arguments resolve to.
GetMissed ==
  /\ last.op = "get"
  /\ ~(/\ HasEntry(properties, getValidLocale(last.locale), ModuleName(last.module))
       /\ last.key.s \in
            DOMAIN properties[getValidLocale(last.locale)][ModuleName(last.module)])

\* C5 as claimed: for a key that is not stored, get returns the decoded
\* defaultValue whenever one is passed, and the decoded key otherwise.
C5_MissReturnsGivenDefault ==
  GetMissed =>
    last.result = convertUnicodeString(IF last.defaultValue /= Undefined
                                       THEN last.defaultValue.s ELSE last.key.s)

\* C5: for a key that is not stored, get returns the decoded defaultValue when
\* one is passed and is not the empty string, and the decoded key otherwise.
C5_MissReturnsNonEmptyDefaultOrKey ==
  GetMissed =>
    last.result = convertUnicodeString(IF last.defaultValue /= Undefined
                                          /\ last.defaultValue.s /= <<>>
                                       THEN last.defaultValue.s ELSE last.key.s)

\* C5 witness: module A is loaded, key j is not in it, and get with an escaped
\* default value has returned the decoded default.
C5_Witness ==
  /\ GetMissed
  /\ HasEntry(properties, getValidLocale(last.locale), ModA)
  /\ last.module = JsStr(ModA) /\ last.key = JsStr(KeyJ)
  /\ last.defaultValue = JsStr(Escaped)
  /\ last.result = <<"A">>

\* s with its first hyphen, if any, replaced by an underscore.
FirstHyphenReplaced(s) ==
  [i \in 1..Len(s) |->
     IF s[i] = "-" /\ \A j \in 1..(i - 1) : s[j] /= "-" THEN "_" ELSE s[i]]

\* What the get just made answers if its locale argument resolves to resolved:
\* the decoded stored value, else the decoded default value or key.
AnswerUnder(resolved) ==
  LET m == ModuleName(last.module)
  IN convertUnicodeString(
       IF HasEntry(properties, resolved, m) /\ last.key.s \in DOMAIN properties[resolved][m]
       THEN properties[resolved][m][last.key.s]
       ELSE IF Truthy(last.defaultValue) THEN last.defaultValue.s ELSE last.key.s)

\* The resolution C9 claims: the current locale as it is for an absent or
\* non-string argument, the argument with its first hyphen replaced otherwise.
ClaimedLocale(locale, current) ==
  IF IsString(locale) THEN FirstHyphenReplaced(locale.s) ELSE current

\* The resolution of the code: the argument, or the current locale when the
\* argument is absent, not a string or empty, with its first hyphen replaced.
NormalizedLocale(locale, current) ==
  FirstHyphenReplaced(IF IsString(locale) /\ locale.s /= <<>> THEN locale.s ELSE current)

\* The load just made stores under the locale resolved from its argument and
\* the current locale (as claimed, or as normalized), a completed fetch stores
\* under its call's locale, and the get just made looks up under the locale
\* resolved the same way.
SameResolution(asClaimed) ==
  LET Resolved(locale) == IF asClaimed THEN ClaimedLocale(locale, currentLocale)
                          ELSE NormalizedLocale(locale, currentLocale)
  IN /\ (last.op = "load" /\ ~calls[last.call].aborted) =>
          calls[last.call].validLocale = Resolved(calls[last.call].locale)
     /\ (last.op = "complete" /\ last.response.status = 200
           /\ last.response.responseText /= <<>>) =>
          HasEntry(properties, calls[last.call].validLocale,
                   calls[last.call].modulesToLoad[last.index])
     /\ last.op = "get" => last.result = AnswerUnder(Resolved(last.locale))

\* C9 as claimed: load and get resolve an absent locale to the current locale
\* unchanged and a string locale to itself with the first hyphen replaced.
C9_AbsentLocaleIsCurrentLocale ==
  SameResolution(TRUE)

\* C9: load and get resolve their locale argument the same way: the argument,
\* or the current locale when it is absent, not a string or empty, with its
\* first hyphen replaced by an underscore; load stores under that locale and
\* get looks up under it.
C9_LoadAndGetNormalizeAlike ==
  SameResolution(FALSE)

\* C9 witness: module A was loaded under "en-US" and get with "en_US" has
\* returned the stored value of j.
C9_Witness ==
  /\ last.op = "get" /\ last.locale = JsStr(en_US)
  /\ last.module = JsStr(ModA) /\ last.key = JsStr(KeyJ)
  /\ Len(calls) = 1 /\ calls[1].locale = JsStr(en_dash_US)
  /\ calls[1].module = JsStr(ModA)
  /\ HasEntry(properties, en_US, ModA) /\ KeyJ \in DOMAIN properties[en_US][ModA]
  /\ last.result = <<"A">>

\* C10 as claimed: a get before init is not answered with the default value
\* or the key.
C10_GetBeforeInitAborted ==
  (last.op = "get" /\ ~validConfiguration) =>
    last.result /= convertUnicodeString(ToStr(OrElse(last.defaultValue, last.key)))

\* C10: a get before init is answered like any other; the store being empty
\* then, the answer is the decoded default value, or the decoded key when the
\* default is absent or empty.
C10_GetBeforeInitAnswersFallback ==
  (last.op = "get" /\ ~validConfiguration) =>
    /\ \A l \in DOMAIN properties : properties[l] = <<>>
    /\ last.result = convertUnicodeString(ToStr(OrElse(last.defaultValue, last.key)))

\* C10 witness: init has not been called and get has returned the decoded
\* default value.
C10_Witness ==
  /\ last.op = "get" /\ ~validConfiguration
  /\ last.key = JsStr(KeyJ) /\ last.defaultValue = JsStr(Escaped)
  /\ last.result = <<"A">>

\* The lines of a file text, each named by the position of its first
\* character: the text is cut at its newline characters.
NewlinesOf(text) == {i \in 1..Len(text) : text[i] = "\n"}
LineStarts(text) == {1} \cup {i + 1 : i \in NewlinesOf(text)}
LineAt(text, p) ==
  SubSeq(text, p,
         IF \E i \in NewlinesOf(text) : i >= p
         THEN (CHOOSE i \in NewlinesOf(text) :
                 i >= p /\ \A j \in NewlinesOf(text) : j >= p => i <= j) - 1
         ELSE Len(text))

\* s without its leading and trailing whitespace.
Stripped(s) ==
  LET ink == {i \in 1..Len(s) : s[i] \notin WhiteSpace}
  IN IF ink = {} THEN <<>>
     ELSE SubSeq(s, CHOOSE i \in ink : \A j \in ink : i <= j,
                    CHOOSE i \in ink : \A j \in ink : j <= i)

\* A line that is neither blank nor a comment and has text before its first '='.
FirstEquals(t) == CHOOSE i \in 1..Len(t) : t[i] = "=" /\ \A j \in 1..(i - 1) : t[j] /= "="
DefinesKey(line) ==
  LET t == Stripped(line)
  IN /\ t /= <<>> /\ t[1] /= "#"
     /\ \E i \in 1..Len(t) : t[i] = "="
     /\ FirstEquals(t) > 1
KeyOf(line) ==
  LET t == Stripped(line) IN Stripped(SubSeq(t, 1, FirstEquals(t) - 1))
ValueOf(line) ==
  LET t == Stripped(line) IN Stripped(SubSeq(t, FirstEquals(t) + 1, Len(t)))

\* The fetch just completed delivered the text of a file, and Entry is what the
\* store holds for its module.
ParsedText == last.response.responseText
ParsedEntry ==
  ModuleMap(properties, calls[last.call].validLocale,
            calls[last.call].modulesToLoad[last.index])
KeyLines == {p \in LineStarts(ParsedText) : DefinesKey(LineAt(ParsedText, p))}

\* C8 as claimed: after a load completes with a file text, for every line that
\* is neither blank nor a comment and has text before its first '=', the store
\* maps the trimmed text before that '=' to the trimmed text after it, and no
\* other line adds a key.
C8_EveryKeyLineStored ==
  (last.op = "complete" /\ last.response.status = 200) =>
    /\ \A p \in KeyLines :
         /\ KeyOf(LineAt(ParsedText, p)) \in DOMAIN ParsedEntry
         /\ ParsedEntry[KeyOf(LineAt(ParsedText, p))] = ValueOf(LineAt(ParsedText, p))
    /\ DOMAIN ParsedEntry = {KeyOf(LineAt(ParsedText, p)) : p \in KeyLines}

\* No line of the text, once trimmed, holds a carriage return or another
\* character the regular expression's dot does not match.
NoTerminatorInsideLines(text) ==
  \A p \in LineStarts(text) :
    \A i \in 1..Len(Stripped(LineAt(text, p))) :
      Stripped(LineAt(text, p))[i] \notin LineTerminators

\* C8: after a load completes with a file text none of whose trimmed lines
\* holds a carriage return, the store maps the key of every key-defining line
\* to the value of the last line of the file that defines that key, and no
\* other line adds a key.
C8_LastKeyLineStored ==
  (last.op = "complete" /\ last.response.status = 200
     /\ NoTerminatorInsideLines(ParsedText)) =>
    /\ \A p \in KeyLines :
         /\ KeyOf(LineAt(ParsedText, p)) \in DOMAIN ParsedEntry
         /\ (\A q \in KeyLines :
               q > p => KeyOf(LineAt(ParsedText, q)) /= KeyOf(LineAt(ParsedText, p)))
            => ParsedEntry[KeyOf(LineAt(ParsedText, p))] = ValueOf(LineAt(ParsedText, p))
    /\ DOMAIN ParsedEntry = {KeyOf(LineAt(ParsedText, p)) : p \in KeyLines}

\* C8 witness: the text " a==a" and a line break has been parsed: the key and
\* the value are trimmed and the second '=' stays in the value.
C8_Witness ==
  /\ last.op = "complete"
  /\ ParsedText = <<" ", "a", "=", "=", "a", "\n">>
  /\ ParsedEntry = (<<"a">> :> <<"=", "a">>)

\* C11: when a fetch delivers a text that is empty once coerced to a string,
\* the completion leaves the store as it was, so a module without an entry
\* for the call's locale is still not loaded; and a load made after init fetches
\* every module it asks for that has no entry for its locale.
C11_EmptyTextIsNoOp ==
  [][/\ \A c \in DOMAIN calls : \A i \in DOMAIN calls[c].modulesToLoad :
          (CompleteStep(c, i) /\ ToStr(AjaxResult(last'.response)) = <<>>) =>
            /\ properties' = properties
            /\ ~HasEntry(properties, calls[c].validLocale, calls[c].modulesToLoad[i]) =>
                 ~isModuleLoaded(JsStr(calls[c].modulesToLoad[i]), calls[c].validLocale)'
     /\ (LoadStep /\ validConfiguration) =>
          \A m \in Requested(NewCall.module) :
            ~HasEntry(properties, NewCall.validLocale, m) =>
              \E i \in DOMAIN NewCall.urls : NewCall.modulesToLoad[i] = m]_vars

\* C11 witness: the only fetch of the first load of module A has completed and
\* A has no entry for its locale, which only an empty text leaves so; a second
\* load of A for the same locale has issued a fetch for it again.
C11_Witness ==
  /\ last.op = "load" /\ last.call = 2
  /\ calls[1].modulesToLoad = <<ModA>> /\ calls[1].done = {1}
  /\ calls[2].validLocale = calls[1].validLocale
  /\ ~HasEntry(properties, calls[1].validLocale, ModA)
  /\ calls[2].modulesToLoad = <<ModA>> /\ Len(calls[2].urls) = 1

\* An escape sequence starts at position p of s: a backslash, a u and four
\* hexadecimal digits.
EscapeAt(s, p) ==
  /\ p >= 1 /\ p + 5 <= Len(s)
  /\ s[p] = "\\" /\ s[p + 1] = "u"
  /\ \A i \in (p + 2)..(p + 5) : s[i] \in HexDigits

\* s from position i on, each escape sequence replaced by the character of its
\* code and every other character kept.
RECURSIVE DecodedFrom(_, _)
DecodedFrom(s, i) ==
  IF i > Len(s) THEN <<>>
  ELSE (IF EscapeAt(s, i) THEN <<FromCharCode(ParseHex4(SubSeq(s, i + 2, i + 5)))>>
        ELSE IF \E p \in (i - 5)..(i - 1) : EscapeAt(s, p) THEN <<>>
        ELSE <<s[i]>>)
       \o DecodedFrom(s, i + 1)

\* t occurs in s as a run of consecutive characters.
OccursIn(t, s) ==
  \E p \in 1..(Len(s) + 1) : p + Len(t) - 1 <= Len(s) /\ SubSeq(s, p, p + Len(t) - 1) = t

\* C12: a get whose key is stored returns the stored value with every escape
\* sequence replaced by the character of its code, and every value the store
\* holds is text as it came in a response, escape sequences included.
C12_DecodedByGetOnly ==
  /\ (last.op = "get" /\ ~GetMissed) =>
        last.result =
          DecodedFrom(properties[getValidLocale(last.locale)][ModuleName(last.module)][last.key.s], 1)
  /\ \A l \in DOMAIN properties : \A m \in DOMAIN properties[l] :
        \A k \in DOMAIN properties[l][m] :
          \E response \in LookupResponses : OccursIn(properties[l][m][k], response.responseText)

\* C12 witness: the store holds two escape sequences around a b as the value of
\* j, and get has returned AbB.
C12_Witness ==
  /\ last.op = "get" /\ last.key = JsStr(KeyJ) /\ last.module = JsStr(ModA)
  /\ ~GetMissed
  /\ properties[getValidLocale(last.locale)][ModA][KeyJ]
       = Escaped \o <<"b","\\","u","0","0","4","2">>
  /\ last.result = <<"A","b","B">>

\* C13: a load call issues at most one fetch for each distinct module name of
\* its list and none for a falsy item: the names it fetches are truthy items
\* of the list, each fetched once.
C13_OneFetchPerDistinctName ==
  \A c \in DOMAIN calls :
    /\ Len(calls[c].urls) = Len(calls[c].modulesToLoad)
    /\ \A i \in DOMAIN calls[c].modulesToLoad :
         /\ calls[c].modulesToLoad[i] \in Requested(calls[c].module)
         /\ \A j \in DOMAIN calls[c].modulesToLoad :
              calls[c].modulesToLoad[i] = calls[c].modulesToLoad[j] => i = j

\* Calls c and d each have a fetch outstanding for the same module and locale.
Racing(c, d) ==
  /\ c \in DOMAIN calls /\ d \in DOMAIN calls /\ c < d
  /\ calls[c].validLocale = calls[d].validLocale
  /\ \E i \in Pending(c), j \in Pending(d) :
       calls[c].modulesToLoad[i] = calls[d].modulesToLoad[j]

\* The callback of call c has been invoked once.
CalledBackOnce(c) == c \in DOMAIN calls /\ calls[c].callbacks = 1

\* C14: a load for a module that another call is still fetching and that has
\* no entry yet fetches it again, every completion parses into the store, no
\* callback is ever invoked twice, and when all fetches complete the callbacks
\* of two racing calls have both been invoked.
C14_RacingLoadsBothCallBack ==
  /\ [][(LoadStep /\ validConfiguration) =>
          \A c \in DOMAIN calls : \A i \in Pending(c) :
            (/\ calls[c].validLocale = NewCall.validLocale
             /\ calls[c].modulesToLoad[i] \in Requested(NewCall.module)
             /\ ~HasEntry(properties, calls[c].validLocale, calls[c].modulesToLoad[i]))
            => \E j \in DOMAIN NewCall.urls :
                 /\ NewCall.modulesToLoad[j] = calls[c].modulesToLoad[i]
                 /\ NewCall.urls[j] /= <<>>]_vars
  /\ [](\A c \in DOMAIN calls : calls[c].callbacks <= 1)
  /\ \A c \in 1..MaxCalls : \A d \in 1..MaxCalls :
       Racing(c, d) ~> [](CalledBackOnce(c) /\ CalledBackOnce(d))

\* C14 witness: two calls for module A and the same locale have both completed
\* with a file; the store holds the merge of the two files, which only two
\* fetches outstanding together leave, and both callbacks were invoked once.
C14_Witness ==
  /\ Len(calls) = 2
  /\ calls[1].modulesToLoad = <<ModA>> /\ calls[2].modulesToLoad = <<ModA>>
  /\ calls[1].validLocale = calls[2].validLocale
  /\ HasEntry(properties, calls[1].validLocale, ModA)
  /\ properties[calls[1].validLocale][ModA] = (KeyK :> <<"v">>) @@ (KeyJ :> Escaped)
  /\ calls[1].callbacks = 1 /\ calls[2].callbacks = 1

\* The names call c fetches.
Fetched(c) == {calls[c].modulesToLoad[i] : i \in DOMAIN calls[c].modulesToLoad}

\* Call c was given a list of which it fetches some names and not others.
PartlyLoaded(c) ==
  /\ IsArray(calls[c].module)
  /\ Fetched(c) /= {} /\ Fetched(c) /= Requested(calls[c].module)

\* C15: a load given a list fetches exactly the names of the list that have no
\* entry in the store for the normalized locale when it is called, and a call
\* that found some of its names in the store has invoked its callback exactly
\* once when the fetches for the others have all completed, and not before.
C15_OnlyMissingFetchedCallbackOnce ==
  /\ [][(LoadStep /\ validConfiguration /\ IsArray(NewCall.module)) =>
          /\ {NewCall.modulesToLoad[i] : i \in DOMAIN NewCall.modulesToLoad}
               = {m \in Requested(NewCall.module) :
                    ~HasEntry(properties, NewCall.validLocale, m)}
          /\ Len(NewCall.urls) = Len(NewCall.modulesToLoad)]_vars
  /\ [](\A c \in DOMAIN calls :
          (PartlyLoaded(c) /\ calls[c].hasCallback) =>
            calls[c].callbacks = IF Pending(c) = {} THEN 1 ELSE 0)

\* C15 witness: module A was in the store when the list of A and B was loaded;
\* only B was fetched, and the completion of that fetch invoked the callback.
C15_Witness ==
  /\ last.op = "complete" /\ last.call = 2
  /\ calls[2].module = JsArr(<<JsStr(ModA), JsStr(ModB)>>)
  /\ calls[2].modulesToLoad = <<ModB>> /\ Len(calls[2].urls) = 1
  /\ PartlyLoaded(2)
  /\ HasEntry(properties, calls[2].validLocale, ModA)
  /\ calls[2].done = {1} /\ calls[2].callbacks = 1

\* C16 as claimed: a load that issues a fetch leaves the store as it was and
\* has not invoked its callback when it returns.
C16_LoadLeavesStoreUnchanged ==
  [][(LoadStep /\ NewCall.urls /= <<>>) =>
       /\ properties' = properties
       /\ NewCall.callbacks = 0]_vars

\* The step adds an entry for a (locale, module) or changes the mapping of one.
EntryWritten ==
  \E l \in DOMAIN properties' : \E m \in DOMAIN properties'[l] :
    ~HasEntry(properties, l, m) \/ properties'[l][m] /= properties[l][m]

\* C16: a load that issues a fetch returns with its callback not invoked and
\* with every (locale, module) entry as it was: all it does to the store is
\* create an empty mapping for its normalized locale when there is none.
\* Entries are written, and the callback of such a call is invoked, only by
\* the completion of a fetch.
C16_LoadWritesNoEntry ==
  [][/\ (LoadStep /\ NewCall.urls /= <<>>) =>
          /\ NewCall.callbacks = 0
          /\ DOMAIN properties' = (DOMAIN properties) \cup {NewCall.validLocale}
          /\ \A l \in DOMAIN properties : properties'[l] = properties[l]
          /\ NewCall.validLocale \notin DOMAIN properties =>
               properties'[NewCall.validLocale] = <<>>
     /\ EntryWritten =>
          \E c \in DOMAIN calls : \E i \in DOMAIN calls[c].modulesToLoad : CompleteStep(c, i)
     /\ \A c \in DOMAIN calls :
          calls'[c].callbacks /= calls[c].callbacks =>
            \E i \in DOMAIN calls[c].modulesToLoad : CompleteStep(c, i)]_vars

\* C16 witness: the first load after init has returned with a fetch issued:
\* its callback has not run and the store holds an empty mapping for its locale.
C16_Witness ==
  /\ last.op = "load" /\ last.call = 1
  /\ calls[1].urls /= <<>> /\ calls[1].done = {}
  /\ calls[1].callbacks = 0
  /\ properties = (calls[1].validLocale :> <<>>)

\* The key under which data of the default locale is stored.
DefaultLocaleKey == FirstHyphenReplaced(defaultLocale)

\* C17: a load with no locale made while the current locale is the default
\* locale asks for the bare file names and stores under the default locale's
\* key; a load with the default locale passed explicitly fetches nothing when
\* its modules have entries under that key; and a get with the default locale
\* passed, or with none while the current locale is the default, returns the
\* decoded value stored under that key.
C17_DefaultLocaleBareFileSameKey ==
  /\ (/\ last.op = "load" /\ ~calls[last.call].aborted
      /\ calls[last.call].locale = Undefined /\ currentLocale = defaultLocale) =>
        /\ calls[last.call].validLocale = DefaultLocaleKey
        /\ \A i \in DOMAIN calls[last.call].urls :
             calls[last.call].urls[i] =
               ToStr(filePath) \o calls[last.call].modulesToLoad[i] \o ToStr(fileExtension)
  /\ (/\ last.op = "load" /\ ~calls[last.call].aborted
      /\ calls[last.call].locale = JsStr(defaultLocale)
      /\ \A m \in Requested(calls[last.call].module) :
           HasEntry(properties, DefaultLocaleKey, m)) =>
        calls[last.call].urls = <<>>
  /\ (/\ last.op = "get"
      /\ \/ last.locale = JsStr(defaultLocale)
         \/ last.locale = Undefined /\ currentLocale = defaultLocale
      /\ HasEntry(properties, DefaultLocaleKey, ModuleName(last.module))
      /\ last.key.s \in DOMAIN properties[DefaultLocaleKey][ModuleName(last.module)]) =>
        last.result =
          convertUnicodeString(properties[DefaultLocaleKey][ModuleName(last.module)][last.key.s])

\* What a text defines when parsed on its own, into an empty mapping.
DefinedBy(text) == SaveLines(<<>>, Split(text, "\n"))

\* C18: when a fetch completes with a non-empty text for a (locale, module)
\* that has an entry, the entry afterwards holds the keys it had and the keys
\* the text defines: a key the text defines has the value the text gives it,
\* and every other key has the value it had.
C18_SecondParseMerges ==
  [][\A c \in DOMAIN calls : \A i \in DOMAIN calls[c].modulesToLoad :
       (/\ CompleteStep(c, i)
        /\ ToStr(AjaxResult(last'.response)) /= <<>>
        /\ HasEntry(properties, calls[c].validLocale, calls[c].modulesToLoad[i])) =>
         LET old == properties[calls[c].validLocale][calls[c].modulesToLoad[i]]
             new == properties'[calls[c].validLocale][calls[c].modulesToLoad[i]]
             later == DefinedBy(ToStr(AjaxResult(last'.response)))
         IN /\ DOMAIN new = (DOMAIN old) \cup (DOMAIN later)
            /\ \A k \in DOMAIN later : new[k] = later[k]
            /\ \A k \in (DOMAIN old) \ (DOMAIN later) : new[k] = old[k]]_vars

\* C18 witness: two loads of module A raced; the fetch of the second call has
\* just completed with k=v into the entry the first had filled with k and j:
\* j kept its value and k took the later one.
C18_Witness ==
  /\ last.op = "complete" /\ last.call = 2
  /\ last.response.responseText = <<"k","=","v">>
  /\ calls[1].modulesToLoad = <<ModA>> /\ calls[1].done = {1}
  /\ calls[2].modulesToLoad = <<ModA>>
  /\ calls[1].validLocale = calls[2].validLocale
  /\ ModuleMap(properties, calls[2].validLocale, ModA) = (KeyJ :> Escaped) @@ (KeyK :> <<"v">>)

\* C19: a load with no locale argument takes the current locale, normalized,
\* as the locale of the call; the locale of a call never changes afterwards,
\* whatever setCurrentLocale and init do; and the completion of a fetch writes
\* under the locale of its call and leaves every other locale of the store,
\* the current one included, as it was.
C19_StoreLocaleFixedAtCall ==
  [][/\ (LoadStep /\ validConfiguration /\ NewCall.locale = Undefined) =>
          NewCall.validLocale = FirstHyphenReplaced(currentLocale)
     /\ \A c \in DOMAIN calls : calls'[c].validLocale = calls[c].validLocale
     /\ \A c \in DOMAIN calls : \A i \in DOMAIN calls[c].modulesToLoad :
          CompleteStep(c, i) =>
            /\ DOMAIN properties' = DOMAIN properties
            /\ \A l \in DOMAIN properties :
                 l /= calls[c].validLocale => properties'[l] = properties[l]
            /\ ToStr(AjaxResult(last'.response)) /= <<>> =>
                 HasEntry(properties', calls[c].validLocale, calls[c].modulesToLoad[i])]_vars

\* C19 witness: module A was loaded with no locale while the current locale
\* was en_US, the current locale was then set to fr, and the fetch has now
\* completed with a file: A has an entry under en_US and none under fr.
C19_Witness ==
  /\ last.op = "complete" /\ Len(calls) = 1
  /\ calls[1].locale = Undefined /\ calls[1].validLocale = en_US
  /\ currentLocale = fr
  /\ last.response.status = 200 /\ last.response.responseText /= <<>>
  /\ HasEntry(properties, en_US, ModA)
  /\ ~HasEntry(properties, fr, ModA)

\* C20: a get leaves the store, the configuration with the current and the
\* default locale, and every load call with its counter, its completed and
\* its outstanding fetches as they were, and adds no call and no fetch.
C20_GetChangesNothing ==
  [][last'.op = "get" =>
       /\ properties' = properties
       /\ currentLocale' = currentLocale /\ defaultLocale' = defaultLocale
       /\ filePath' = filePath /\ fileExtension' = fileExtension
       /\ validConfiguration' = validConfiguration
       /\ calls' = calls]_vars

\* C20 witness: with one fetch of a call completed and another outstanding,
\* get has returned the stored value of j, and the fetch is still outstanding.
C20_Witness ==
  /\ last.op = "get" /\ last.key = JsStr(KeyJ)
  /\ Len(calls) = 1 /\ calls[1].done = {1} /\ Pending(1) = {2}
  /\ calls[1].filesLoadedCount = 1 /\ calls[1].callbacks = 0
  /\ ~GetMissed
  /\ last.result = <<"A">>

=============================================================================
